---- MODULE Spec2Model ----
(***************************************************************************)
(* Space-filling curve mappers of google/hilbert: the Hilbert curve on     *)
(* power-of-two grids (Space over int, Hilbert64 over uint64) and the      *)
(* Peano curve on power-of-three grids (Peano over int, Peano64 over       *)
(* uint64).  Go's int and uint64 are 64-bit two's-complement words; the    *)
(* model keeps the wrap-around arithmetic and scales the word to IntBits   *)
(* bits and the float64 significand to FloatMantBits bits.                 *)
(***************************************************************************)
EXTENDS Integers, Sequences, FiniteSets, TLC

VARIABLES curve, pc, call, ret, hist, callers, test

vars == <<curve, pc, call, ret, hist, callers, test>>

(***************************************************************************)
(* Bounds of the model.                                                    *)
(***************************************************************************)
\* width in bits of int and of uint64 (64 in the Go build)
IntBits == 12
\* width in bits of the float64 significand (53 in the Go build)
FloatMantBits == 10
\* largest index a caller passes to Map, besides the extreme values
MaxT == 1030
\* largest coordinate a caller passes to MapInverse, besides the extremes
MaxXY == 33
\* concurrent callers: largest side of the shared instance, largest index
\* passed to Map and largest coordinate passed to MapInverse
MaxConcurrentN == 9
MaxConcurrentT == 81
MaxConcurrentXY == 8
\* largest binary exponent, either sign, of the floats given to isPow3
MaxFloatExp == 12

(***************************************************************************)
(* Fixed-width integer arithmetic.                                         *)
(***************************************************************************)
RECURSIVE Pow2(_)
Pow2(k) == IF k <= 0 THEN 1 ELSE 2 * Pow2(k - 1)

Modulus == Pow2(IntBits)

HalfModulus == Pow2(IntBits - 1)

MaxInt == HalfModulus - 1

MinInt == 0 - HalfModulus

MaxUint64 == Modulus - 1

\* the value an int expression takes after two's-complement wrap-around
WrapInt(v) == ((v + HalfModulus) % Modulus) - HalfModulus

\* the value a uint64 expression takes after wrap-around
WrapUint64(v) == v % Modulus

\* Go's integer division truncates toward zero
GoDiv(a, b) == IF a >= 0 THEN a \div b ELSE 0 - ((0 - a) \div b)

\* Go's remainder has the sign of the dividend
GoMod(a, b) == a - b * GoDiv(a, b)

RECURSIVE BitAndNat(_, _)
BitAndNat(a, b) ==
  IF a = 0 \/ b = 0 THEN 0
  ELSE (IF a % 2 = 1 /\ b % 2 = 1 THEN 1 ELSE 0)
       + 2 * BitAndNat(a \div 2, b \div 2)

RECURSIVE BitXorNat(_, _)
BitXorNat(a, b) ==
  IF a = 0 THEN b
  ELSE IF b = 0 THEN a
  ELSE (IF a % 2 /= b % 2 THEN 1 ELSE 0)
       + 2 * BitXorNat(a \div 2, b \div 2)

\* a & b and a ^ b on int operands (two's complement bit patterns)
AndInt(a, b) == WrapInt(BitAndNat(a % Modulus, b % Modulus))

XorInt(a, b) == WrapInt(BitXorNat(a % Modulus, b % Modulus))

\* a & b and a ^ b on uint64 operands
AndUint64(a, b) == BitAndNat(a, b)

XorUint64(a, b) == BitXorNat(a, b)

(***************************************************************************)
(* Errors and results.                                                     *)
(***************************************************************************)
NoErr == "nil"

ErrLessThanZero == "hilbert.go: N must be greater than zero"

ErrNotPositive == "N must be greater than zero"

ErrNotPowerOfTwo == "N must be a power of two"

ErrNotPowerOfThree == "N must be a power of three"

ErrOutOfRange == "value is out of range"

PanicNotFinished == "panic: Not finished"

PanicAssertion == "panic: assertion failure: this line should never be reached"

\* a constructor's result: the instance (ok, N) or nil, and the error
NewResult(ok, n, e) == [ok |-> ok, N |-> n, err |-> e]

\* Map's result
MapResult(x, y, e) == [x |-> x, y |-> y, err |-> e]

\* MapInverse's result
InvResult(t, e) == [t |-> t, err |-> e]

(***************************************************************************)
(* hilbert.go: Space, the Hilbert curve over int.                          *)
(***************************************************************************)
\* New making the bit test before the test for a non-positive n
NewTestingBitsFirst(n) ==
  IF AndInt(n, WrapInt(n - 1)) /= 0
  THEN NewResult(FALSE, 0, ErrNotPowerOfTwo)
  ELSE IF n <= 0 THEN NewResult(FALSE, 0, ErrLessThanZero)
       ELSE NewResult(TRUE, n, NoErr)

\* New with the test for a non-positive n written n < 0
NewAcceptingZero(n) ==
  IF n < 0 THEN NewResult(FALSE, 0, ErrLessThanZero)
  ELSE IF AndInt(n, WrapInt(n - 1)) /= 0
       THEN NewResult(FALSE, 0, ErrNotPowerOfTwo)
       ELSE NewResult(TRUE, n, NoErr)

New(n) ==
  IF n <= 0 THEN NewResult(FALSE, 0, ErrLessThanZero)
  ELSE IF AndInt(n, WrapInt(n - 1)) /= 0
       THEN NewResult(FALSE, 0, ErrNotPowerOfTwo)
       ELSE NewResult(TRUE, n, NoErr)

\* GetDimensions of Space: (N, N), no failure mode
SpaceGetDimensions(N) == <<N, N>>

i2b(i) == i /= 0

b2i(b) == IF b THEN 1 ELSE 0

\* rot reflecting about n instead of n - 1
rotReflectingAboutN(n, x, y, rx, ry) ==
  IF ~ry
  THEN IF rx
       THEN <<WrapInt(n - y), WrapInt(n - x)>>
       ELSE <<y, x>>
  ELSE <<x, y>>

rot(n, x, y, rx, ry) ==
  IF ~ry
  THEN IF rx
       THEN <<WrapInt(WrapInt(n - 1) - y), WrapInt(WrapInt(n - 1) - x)>>
       ELSE <<y, x>>
  ELSE <<x, y>>

RECURSIVE SpaceMapLoop(_, _, _, _, _)
SpaceMapLoop(N, i, t, x, y) ==
  IF ~(i < N) THEN MapResult(x, y, NoErr)
  ELSE LET rx == i2b(AndInt(1, GoDiv(t, 2)))
           ry == i2b(AndInt(1, XorInt(t, b2i(rx))))
           r  == rot(i, x, y, rx, ry)
       IN  SpaceMapLoop(N, WrapInt(i * 2), GoDiv(t, 4),
                        WrapInt(r[1] + WrapInt(i * b2i(rx))),
                        WrapInt(r[2] + WrapInt(i * b2i(ry))))

SpaceMap(N, t) ==
  IF t < 0 \/ t >= WrapInt(N * N) THEN MapResult(-1, -1, ErrOutOfRange)
  ELSE SpaceMapLoop(N, 1, t, 0, 0)

RECURSIVE SpaceMapInverseLoop(_, _, _, _)
SpaceMapInverseLoop(i, x, y, t) ==
  IF ~(i > 0) THEN InvResult(t, NoErr)
  ELSE LET rx == AndInt(x, i) > 0
           ry == AndInt(y, i) > 0
           r  == rot(i, x, y, rx, ry)
       IN  SpaceMapInverseLoop(GoDiv(i, 2), r[1], r[2],
             WrapInt(t + WrapInt(WrapInt(i * i)
                                 * XorInt(WrapInt(3 * b2i(rx)), b2i(ry)))))

SpaceMapInverse(N, x, y) ==
  IF x < 0 \/ x >= N \/ y < 0 \/ y >= N THEN InvResult(-1, ErrOutOfRange)
  ELSE SpaceMapInverseLoop(GoDiv(N, 2), x, y, 0)

(***************************************************************************)
(* Hilbert64, the Hilbert curve over uint64.                               *)
(***************************************************************************)
NewHilbert64(n) ==
  IF n = 0 THEN NewResult(FALSE, 0, ErrNotPositive)
  ELSE IF AndUint64(n, WrapUint64(n - 1)) /= 0
       THEN NewResult(FALSE, 0, ErrNotPowerOfTwo)
       ELSE NewResult(TRUE, n, NoErr)

\* the height reported one row short
Hilbert64GetDimensionsShort(N) == <<N, WrapUint64(N - 1)>>

Hilbert64GetDimensions(N) == <<N, N>>

\* rotate reflecting about n instead of n - 1
Hilbert64RotateAboutN(n, x, y, rx, ry) ==
  IF ~ry
  THEN IF rx
       THEN <<WrapUint64(n - y), WrapUint64(n - x)>>
       ELSE <<y, x>>
  ELSE <<x, y>>

Hilbert64Rotate(n, x, y, rx, ry) ==
  IF ~ry
  THEN IF rx
       THEN <<WrapUint64(WrapUint64(n - 1) - y),
              WrapUint64(WrapUint64(n - 1) - x)>>
       ELSE <<y, x>>
  ELSE <<x, y>>

RECURSIVE Hilbert64MapLoop(_, _, _, _, _)
Hilbert64MapLoop(N, i, t, x, y) ==
  IF ~(i < N) THEN MapResult(x, y, NoErr)
  ELSE LET rx  == AndUint64(t, 2) = 2
           ry0 == AndUint64(t, 1) = 1
           ry  == IF rx THEN ~ry0 ELSE ry0
           r   == Hilbert64Rotate(i, x, y, rx, ry)
       IN  Hilbert64MapLoop(N, WrapUint64(i * 2), t \div 4,
                            IF rx THEN WrapUint64(r[1] + i) ELSE r[1],
                            IF ry THEN WrapUint64(r[2] + i) ELSE r[2])

Hilbert64Map(N, t) ==
  IF t >= WrapUint64(N * N) THEN MapResult(0, 0, ErrOutOfRange)
  ELSE Hilbert64MapLoop(N, 1, t, 0, 0)

RECURSIVE Hilbert64MapInverseLoop(_, _, _, _)
Hilbert64MapInverseLoop(i, x, y, t) ==
  IF ~(i > 0) THEN InvResult(t, NoErr)
  ELSE LET rx == AndUint64(x, i) > 0
           ry == AndUint64(y, i) > 0
           a  == IF rx THEN 3 ELSE 0
           r  == Hilbert64Rotate(i, x, y, rx, ry)
       IN  Hilbert64MapInverseLoop(i \div 2, r[1], r[2],
             WrapUint64(t + WrapUint64(WrapUint64(i * i)
                                       * XorUint64(a, b2i(ry)))))

\* MapInverse with the upper range test written x > N, y > N
Hilbert64MapInverseOffByOne(N, x, y) ==
  IF x > N \/ y > N THEN InvResult(0, ErrOutOfRange)
  ELSE Hilbert64MapInverseLoop(N \div 2, x, y, 0)

Hilbert64MapInverse(N, x, y) ==
  IF x >= N \/ y >= N THEN InvResult(0, ErrOutOfRange)
  ELSE Hilbert64MapInverseLoop(N \div 2, x, y, 0)

(***************************************************************************)
(* float64: a binary floating-point number is zero (m = 0) or              *)
(* m * 2^(e - FloatMantBits + 1) with 2^(FloatMantBits-1) <= m <           *)
(* 2^FloatMantBits, negated when neg; operations round to nearest, ties    *)
(* to even.                                                                *)
(***************************************************************************)
MantMin == Pow2(FloatMantBits - 1)

MantLim == Pow2(FloatMantBits)

Float(neg, m, e) == [neg |-> neg, m |-> m, e |-> e]

RECURSIVE Log2Floor(_)
Log2Floor(n) == IF n <= 1 THEN 0 ELSE 1 + Log2Floor(n \div 2)

\* float64(n) for an integer n
Float64FromInt(n) ==
  IF n = 0 THEN Float(FALSE, 0, 0)
  ELSE LET a == IF n < 0 THEN 0 - n ELSE n
           e == Log2Floor(a)
       IN  IF e < FloatMantBits
           THEN Float(n < 0, a * Pow2(FloatMantBits - 1 - e), e)
           ELSE LET unit == Pow2(e - FloatMantBits + 1)
                    q    == a \div unit
                    r    == a % unit
                    up   == 2 * r > unit \/ (2 * r = unit /\ q % 2 = 1)
                    m    == IF up THEN q + 1 ELSE q
                IN  IF m = MantLim THEN Float(n < 0, MantMin, e + 1)
                    ELSE Float(n < 0, m, e)

\* n >= 1
FloatGe1(f) == ~f.neg /\ f.m > 0 /\ f.e >= 0

\* n == 1
FloatEq1(f) == ~f.neg /\ f.m = MantMin /\ f.e = 0

\* n / 3, rounded to nearest (a third is never a tie)
FloatDiv3(f) ==
  IF f.m = 0 THEN f
  ELSE LET k  == IF 3 * MantMin <= 2 * f.m THEN 1 ELSE 2
           q  == (f.m * Pow2(k)) \div 3
           r  == (f.m * Pow2(k)) % 3
           m  == IF r = 2 THEN q + 1 ELSE q
       IN  IF m = MantLim THEN Float(f.neg, MantMin, f.e - k + 1)
           ELSE Float(f.neg, m, f.e - k)

(***************************************************************************)
(* Peano, the Peano curve over int.                                        *)
(***************************************************************************)
RECURSIVE isPow3(_)
isPow3(n) ==
  IF FloatGe1(n)
  THEN IF FloatEq1(n) THEN TRUE ELSE isPow3(FloatDiv3(n))
  ELSE FALSE

NewPeano(n) ==
  IF n <= 0 THEN NewResult(FALSE, 0, ErrNotPositive)
  ELSE IF ~isPow3(Float64FromInt(n))
       THEN NewResult(FALSE, 0, ErrNotPowerOfThree)
       ELSE NewResult(TRUE, n, NoErr)

PeanoGetDimensions(N) == <<N, N>>

\* rotate with case 4 returning x, y as they are
PeanoRotateNormalAtFour(n, x, y, s) ==
  IF n = 1 THEN [x |-> x, y |-> y, panic |-> FALSE]
  ELSE LET n1 == WrapInt(n - 1)
       IN  CASE s \in {0, 2, 4, 6, 8} -> [x |-> x, y |-> y, panic |-> FALSE]
             [] s \in {1, 7} -> [x |-> WrapInt(n1 - x), y |-> y,
                                 panic |-> FALSE]
             [] s \in {3, 5} -> [x |-> x, y |-> WrapInt(n1 - y),
                                 panic |-> FALSE]
             [] OTHER -> [x |-> x, y |-> y, panic |-> TRUE]

\* the outcome of rotate: the new (x, y), or the panic of its last line
PeanoRotate(n, x, y, s) ==
  IF n = 1 THEN [x |-> x, y |-> y, panic |-> FALSE]
  ELSE LET n1 == WrapInt(n - 1)
       IN  CASE s = 0 -> [x |-> x, y |-> y, panic |-> FALSE]
             [] s = 1 -> [x |-> WrapInt(n1 - x), y |-> y, panic |-> FALSE]
             [] s = 2 -> [x |-> x, y |-> y, panic |-> FALSE]
             [] s = 3 -> [x |-> x, y |-> WrapInt(n1 - y), panic |-> FALSE]
             [] s = 4 -> [x |-> WrapInt(n1 - x), y |-> WrapInt(n1 - y),
                          panic |-> FALSE]
             [] s = 5 -> [x |-> x, y |-> WrapInt(n1 - y), panic |-> FALSE]
             [] s = 6 -> [x |-> x, y |-> y, panic |-> FALSE]
             [] s = 7 -> [x |-> WrapInt(n1 - x), y |-> y, panic |-> FALSE]
             [] s = 8 -> [x |-> x, y |-> y, panic |-> FALSE]
             [] OTHER -> [x |-> x, y |-> y, panic |-> TRUE]

RECURSIVE PeanoMapLoop(_, _, _, _, _)
PeanoMapLoop(N, i, t, x, y) ==
  IF ~(i < N) THEN MapResult(x, y, NoErr)
  ELSE LET s   == GoMod(t, 9)
           rx  == GoDiv(s, 3)
           ry0 == GoMod(s, 3)
           ry  == IF rx = 1 THEN WrapInt(2 - ry0) ELSE ry0
           r   == IF i > 1 THEN PeanoRotate(i, x, y, s)
                  ELSE [x |-> x, y |-> y, panic |-> FALSE]
       IN  IF r.panic THEN MapResult(x, y, PanicAssertion)
           ELSE PeanoMapLoop(N, WrapInt(i * 3), GoDiv(t, 9),
                             WrapInt(r.x + WrapInt(rx * i)),
                             WrapInt(r.y + WrapInt(ry * i)))

\* Map with the upper range test written t > N*N
PeanoMapOffByOne(N, t) ==
  IF t < 0 \/ t > WrapInt(N * N) THEN MapResult(-1, -1, ErrOutOfRange)
  ELSE PeanoMapLoop(N, 1, t, 0, 0)

PeanoMap(N, t) ==
  IF t < 0 \/ t >= WrapInt(N * N) THEN MapResult(-1, -1, ErrOutOfRange)
  ELSE PeanoMapLoop(N, 1, t, 0, 0)

\* MapInverse falling through to its return statement
PeanoMapInverseReturning(N, x, y) ==
  IF x < 0 \/ x >= N \/ y < 0 \/ y >= N THEN InvResult(-1, ErrOutOfRange)
  ELSE InvResult(-1, NoErr)

PeanoMapInverse(N, x, y) ==
  IF x < 0 \/ x >= N \/ y < 0 \/ y >= N THEN InvResult(-1, ErrOutOfRange)
  ELSE InvResult(-1, PanicNotFinished)

(***************************************************************************)
(* Peano64, the Peano curve over uint64.                                   *)
(***************************************************************************)
NewPeano64(n) ==
  IF n = 0 THEN NewResult(FALSE, 0, ErrNotPositive)
  ELSE IF ~isPow3(Float64FromInt(n))
       THEN NewResult(FALSE, 0, ErrNotPowerOfThree)
       ELSE NewResult(TRUE, n, NoErr)

Peano64GetDimensions(N) == <<N, N>>

\* rotate without its statement n = n - 1
Peano64RotateAboutN(n, x, y, s) ==
  IF n = 1 THEN [x |-> x, y |-> y, panic |-> FALSE]
  ELSE CASE s \in {0, 2, 6, 8} -> [x |-> x, y |-> y, panic |-> FALSE]
         [] s \in {1, 7} -> [x |-> WrapUint64(n - x), y |-> y, panic |-> FALSE]
         [] s \in {3, 5} -> [x |-> x, y |-> WrapUint64(n - y), panic |-> FALSE]
         [] s = 4 -> [x |-> WrapUint64(n - x), y |-> WrapUint64(n - y),
                      panic |-> FALSE]
         [] OTHER -> [x |-> x, y |-> y, panic |-> TRUE]

Peano64Rotate(n, x, y, s) ==
  IF n = 1 THEN [x |-> x, y |-> y, panic |-> FALSE]
  ELSE LET n1 == WrapUint64(n - 1)
       IN  CASE s = 0 -> [x |-> x, y |-> y, panic |-> FALSE]
             [] s = 1 -> [x |-> WrapUint64(n1 - x), y |-> y, panic |-> FALSE]
             [] s = 2 -> [x |-> x, y |-> y, panic |-> FALSE]
             [] s = 3 -> [x |-> x, y |-> WrapUint64(n1 - y), panic |-> FALSE]
             [] s = 4 -> [x |-> WrapUint64(n1 - x), y |-> WrapUint64(n1 - y),
                          panic |-> FALSE]
             [] s = 5 -> [x |-> x, y |-> WrapUint64(n1 - y), panic |-> FALSE]
             [] s = 6 -> [x |-> x, y |-> y, panic |-> FALSE]
             [] s = 7 -> [x |-> WrapUint64(n1 - x), y |-> y, panic |-> FALSE]
             [] s = 8 -> [x |-> x, y |-> y, panic |-> FALSE]
             [] OTHER -> [x |-> x, y |-> y, panic |-> TRUE]

RECURSIVE Peano64MapLoop(_, _, _, _, _)
Peano64MapLoop(N, i, t, x, y) ==
  IF ~(i < N) THEN MapResult(x, y, NoErr)
  ELSE LET s   == t % 9
           rx  == s \div 3
           ry0 == s % 3
           ry  == IF rx = 1 THEN WrapUint64(2 - ry0) ELSE ry0
           r   == IF i > 1 THEN Peano64Rotate(i, x, y, s)
                  ELSE [x |-> x, y |-> y, panic |-> FALSE]
       IN  IF r.panic THEN MapResult(x, y, PanicAssertion)
           ELSE Peano64MapLoop(N, WrapUint64(i * 3), t \div 9,
                               WrapUint64(r.x + WrapUint64(rx * i)),
                               WrapUint64(r.y + WrapUint64(ry * i)))

Peano64Map(N, t) ==
  IF t >= WrapUint64(N * N) THEN MapResult(0, 0, ErrOutOfRange)
  ELSE Peano64MapLoop(N, 1, t, 0, 0)

Peano64MapInverse(N, x, y) ==
  IF x >= N \/ y >= N THEN InvResult(0, ErrOutOfRange)
  ELSE InvResult(0, PanicNotFinished)

(***************************************************************************)
(* The number of iterations the level loops make, from their headers.      *)
(***************************************************************************)
\* the header written i <= s.N
RECURSIVE SpaceMapLevelsInclusive(_, _)
SpaceMapLevelsInclusive(N, i) ==
  IF ~(i <= N) THEN 0 ELSE 1 + SpaceMapLevelsInclusive(N, WrapInt(i * 2))

\* for i := 1; i < s.N; i = i * 2
RECURSIVE SpaceMapLevels(_, _)
SpaceMapLevels(N, i) ==
  IF ~(i < N) THEN 0 ELSE 1 + SpaceMapLevels(N, WrapInt(i * 2))

\* for i := s.N / 2; i > 0; i = i / 2
RECURSIVE SpaceMapInverseLevels(_)
SpaceMapInverseLevels(i) ==
  IF ~(i > 0) THEN 0 ELSE 1 + SpaceMapInverseLevels(GoDiv(i, 2))

\* for i := uint64(1); i < s.N; i = i * 2
RECURSIVE Hilbert64MapLevels(_, _)
Hilbert64MapLevels(N, i) ==
  IF ~(i < N) THEN 0 ELSE 1 + Hilbert64MapLevels(N, WrapUint64(i * 2))

\* for i := s.N / 2; i > 0; i = i / 2
RECURSIVE Hilbert64MapInverseLevels(_)
Hilbert64MapInverseLevels(i) ==
  IF ~(i > 0) THEN 0 ELSE 1 + Hilbert64MapInverseLevels(i \div 2)

\* for i := 1; i < p.N; i = i * 3
RECURSIVE PeanoMapLevels(_, _)
PeanoMapLevels(N, i) ==
  IF ~(i < N) THEN 0 ELSE 1 + PeanoMapLevels(N, WrapInt(i * 3))

\* for i := uint64(1); i < p.N; i = i * 3
RECURSIVE Peano64MapLevels(_, _)
Peano64MapLevels(N, i) ==
  IF ~(i < N) THEN 0 ELSE 1 + Peano64MapLevels(N, WrapUint64(i * 3))

(***************************************************************************)
(* A caller of the package: it constructs a curve, calls Map, MapInverse   *)
(* and GetDimensions on it, looks at what each call returned, and lets     *)
(* the curve go out of scope.  curve is the instance the caller holds,     *)
(* call the call in progress and ret what it returned.                     *)
(***************************************************************************)
NoCurve == [kind |-> "none", N |-> 0]

NoCall == [op |-> "none", n |-> 0, t |-> 0, x |-> 0, y |-> 0]

NoRet == [x |-> 0, y |-> 0, t |-> 0, err |-> NoErr]

\* what the caller remembers of the instance: the n it gave the constructor
\* and whether a call on the instance has returned ErrOutOfRange since
NoHist == [n |-> 0, failed |-> FALSE]

\* the goroutines that share one instance, and the local variables of the
\* call each is in: its arguments and the working t, x, y, i of the loop
Callers == {"a", "b"}

\* the case the table-driven test of isPow3 is at: its input, whether
\* isPow3 has been applied to it, and what isPow3 returned
NoTest == [in |-> Float(FALSE, 0, 0), at |-> "none", got |-> FALSE]

IdleCaller ==
  [op |-> "none", at |-> "idle", arg |-> <<>>,
   i |-> 0, t |-> 0, x |-> 0, y |-> 0, err |-> NoErr]

\* the arguments callers pass
IntInputs == MinInt .. MaxInt

Uint64Inputs == 0 .. MaxUint64

TInputsInt == (-2 .. MaxT) \cup {MinInt, MaxInt}

TInputsUint64 == (0 .. MaxT) \cup {MaxUint64}

XYInputsInt == (-2 .. MaxXY) \cup {MinInt, MaxInt}

XYInputsUint64 == (0 .. MaxXY) \cup {MaxUint64}

Init ==
  /\ curve = NoCurve
  /\ pc = "idle"
  /\ call = NoCall
  /\ ret = NoRet
  /\ hist = NoHist
  /\ callers = [c \in Callers |-> IdleCaller]
  /\ test = NoTest

\* what a constructor call leaves behind
Constructed(kind, op, n, r) ==
  /\ curve' = IF r.ok THEN [kind |-> kind, N |-> r.N] ELSE NoCurve
  /\ call' = [NoCall EXCEPT !.op = op, !.n = n]
  /\ ret' = [NoRet EXCEPT !.err = r.err]
  /\ pc' = "returned"
  /\ hist' = IF r.ok THEN [NoHist EXCEPT !.n = n] ELSE NoHist
  /\ UNCHANGED <<callers, test>>

\* a Map call that clears N when it refuses its argument
MappedClearingN(t, r) ==
  /\ call' = [NoCall EXCEPT !.op = "Map", !.t = t]
  /\ ret' = [NoRet EXCEPT !.x = r.x, !.y = r.y, !.err = r.err]
  /\ pc' = IF r.err = PanicAssertion THEN "panicked" ELSE "returned"
  /\ hist' = [hist EXCEPT !.failed = @ \/ r.err = ErrOutOfRange]
  /\ curve' = IF r.err = ErrOutOfRange THEN [curve EXCEPT !.N = 0] ELSE curve
  /\ UNCHANGED <<callers, test>>

\* what a Map call leaves behind
Mapped(t, r) ==
  /\ call' = [NoCall EXCEPT !.op = "Map", !.t = t]
  /\ ret' = [NoRet EXCEPT !.x = r.x, !.y = r.y, !.err = r.err]
  /\ pc' = IF r.err = PanicAssertion THEN "panicked" ELSE "returned"
  /\ hist' = [hist EXCEPT !.failed = @ \/ r.err = ErrOutOfRange]
  /\ UNCHANGED <<curve, callers, test>>

\* what a MapInverse call leaves behind
Inverted(x, y, r) ==
  /\ call' = [NoCall EXCEPT !.op = "MapInverse", !.x = x, !.y = y]
  /\ ret' = [NoRet EXCEPT !.t = r.t, !.err = r.err]
  /\ pc' = IF r.err = PanicNotFinished THEN "panicked" ELSE "returned"
  /\ hist' = [hist EXCEPT !.failed = @ \/ r.err = ErrOutOfRange]
  /\ UNCHANGED <<curve, callers, test>>

\* what a GetDimensions call leaves behind
Measured(d) ==
  /\ call' = [NoCall EXCEPT !.op = "GetDimensions"]
  /\ ret' = [NoRet EXCEPT !.x = d[1], !.y = d[2]]
  /\ pc' = "returned"
  /\ UNCHANGED <<curve, hist, callers, test>>

CallNew ==
  /\ pc = "idle" /\ curve = NoCurve
  /\ \E n \in IntInputs : Constructed("Space", "New", n, New(n))

CallNewHilbert64 ==
  /\ pc = "idle" /\ curve = NoCurve
  /\ \E n \in Uint64Inputs :
       Constructed("Hilbert64", "NewHilbert64", n, NewHilbert64(n))

CallNewPeano ==
  /\ pc = "idle" /\ curve = NoCurve
  /\ \E n \in IntInputs : Constructed("Peano", "NewPeano", n, NewPeano(n))

CallNewPeano64 ==
  /\ pc = "idle" /\ curve = NoCurve
  /\ \E n \in Uint64Inputs :
       Constructed("Peano64", "NewPeano64", n, NewPeano64(n))

CallSpaceMap ==
  /\ pc = "idle" /\ curve.kind = "Space"
  /\ \E t \in TInputsInt : Mapped(t, SpaceMap(curve.N, t))

CallSpaceMapInverse ==
  /\ pc = "idle" /\ curve.kind = "Space"
  /\ \E x, y \in XYInputsInt : Inverted(x, y, SpaceMapInverse(curve.N, x, y))

CallSpaceGetDimensions ==
  /\ pc = "idle" /\ curve.kind = "Space"
  /\ Measured(SpaceGetDimensions(curve.N))

CallHilbert64Map ==
  /\ pc = "idle" /\ curve.kind = "Hilbert64"
  /\ \E t \in TInputsUint64 : Mapped(t, Hilbert64Map(curve.N, t))

CallHilbert64MapInverse ==
  /\ pc = "idle" /\ curve.kind = "Hilbert64"
  /\ \E x, y \in XYInputsUint64 :
       Inverted(x, y, Hilbert64MapInverse(curve.N, x, y))

CallHilbert64GetDimensions ==
  /\ pc = "idle" /\ curve.kind = "Hilbert64"
  /\ Measured(Hilbert64GetDimensions(curve.N))

CallPeanoMap ==
  /\ pc = "idle" /\ curve.kind = "Peano"
  /\ \E t \in TInputsInt : Mapped(t, PeanoMap(curve.N, t))

CallPeanoMapInverse ==
  /\ pc = "idle" /\ curve.kind = "Peano"
  /\ \E x, y \in XYInputsInt : Inverted(x, y, PeanoMapInverse(curve.N, x, y))

CallPeanoGetDimensions ==
  /\ pc = "idle" /\ curve.kind = "Peano"
  /\ Measured(PeanoGetDimensions(curve.N))

CallPeano64Map ==
  /\ pc = "idle" /\ curve.kind = "Peano64"
  /\ \E t \in TInputsUint64 : Mapped(t, Peano64Map(curve.N, t))

CallPeano64MapInverse ==
  /\ pc = "idle" /\ curve.kind = "Peano64"
  /\ \E x, y \in XYInputsUint64 :
       Inverted(x, y, Peano64MapInverse(curve.N, x, y))

CallPeano64GetDimensions ==
  /\ pc = "idle" /\ curve.kind = "Peano64"
  /\ Measured(Peano64GetDimensions(curve.N))

\* the caller has looked at the result and is ready for its next call
Return ==
  /\ pc = "returned"
  /\ pc' = "idle"
  /\ call' = NoCall
  /\ ret' = NoRet
  /\ UNCHANGED <<curve, hist, callers, test>>

\* the curve goes out of scope
Discard ==
  /\ pc = "idle" /\ curve /= NoCurve
  /\ curve' = NoCurve
  /\ hist' = NoHist
  /\ UNCHANGED <<pc, call, ret, callers, test>>

Next ==
  \/ CallNew
  \/ CallNewHilbert64
  \/ CallNewPeano
  \/ CallNewPeano64
  \/ CallSpaceMap
  \/ CallSpaceMapInverse
  \/ CallSpaceGetDimensions
  \/ CallHilbert64Map
  \/ CallHilbert64MapInverse
  \/ CallHilbert64GetDimensions
  \/ CallPeanoMap
  \/ CallPeanoMapInverse
  \/ CallPeanoGetDimensions
  \/ CallPeano64Map
  \/ CallPeano64MapInverse
  \/ CallPeano64GetDimensions
  \/ Return
  \/ Discard

Spec == Init /\ [][Next]_vars

(***************************************************************************)
(* Concurrent callers of one instance.  Each call of Map or MapInverse     *)
(* runs on its own goroutine with its own t, x, y and i; a step is the     *)
(* range check at the entry or one evaluation of the loop header followed  *)
(* by the loop body, and the steps of the callers interleave in any order. *)
(***************************************************************************)
\* the local variables a call starts with, or the error it returns at once
Entered(op, arg, fails, i, t, x, y) ==
  [op |-> op, at |-> IF fails THEN "done" ELSE "loop", arg |-> arg,
   i |-> i, t |-> t, x |-> x, y |-> y,
   err |-> IF fails THEN ErrOutOfRange ELSE NoErr]

SpaceMapEnter(N, t) ==
  IF t < 0 \/ t >= WrapInt(N * N)
  THEN Entered("Map", <<t>>, TRUE, 0, t, -1, -1)
  ELSE Entered("Map", <<t>>, FALSE, 1, t, 0, 0)

SpaceMapInverseEnter(N, x, y) ==
  IF x < 0 \/ x >= N \/ y < 0 \/ y >= N
  THEN Entered("MapInverse", <<x, y>>, TRUE, 0, -1, x, y)
  ELSE Entered("MapInverse", <<x, y>>, FALSE, GoDiv(N, 2), 0, x, y)

PeanoMapEnter(N, t) ==
  IF t < 0 \/ t >= WrapInt(N * N)
  THEN Entered("Map", <<t>>, TRUE, 0, t, -1, -1)
  ELSE Entered("Map", <<t>>, FALSE, 1, t, 0, 0)

\* the local variables after a step: the loop is left, or its body has run
Looped(at, i, t, x, y, err) ==
  [at |-> at, i |-> i, t |-> t, x |-> x, y |-> y, err |-> err]

SpaceMapStep(N, w) ==
  IF ~(w.i < N) THEN Looped("done", w.i, w.t, w.x, w.y, NoErr)
  ELSE LET rx == i2b(AndInt(1, GoDiv(w.t, 2)))
           ry == i2b(AndInt(1, XorInt(w.t, b2i(rx))))
           r  == rot(w.i, w.x, w.y, rx, ry)
       IN  Looped("loop", WrapInt(w.i * 2), GoDiv(w.t, 4),
                  WrapInt(r[1] + WrapInt(w.i * b2i(rx))),
                  WrapInt(r[2] + WrapInt(w.i * b2i(ry))), NoErr)

SpaceMapInverseStep(w) ==
  IF ~(w.i > 0) THEN Looped("done", w.i, w.t, w.x, w.y, NoErr)
  ELSE LET rx == AndInt(w.x, w.i) > 0
           ry == AndInt(w.y, w.i) > 0
           r  == rot(w.i, w.x, w.y, rx, ry)
       IN  Looped("loop", GoDiv(w.i, 2),
                  WrapInt(w.t + WrapInt(WrapInt(w.i * w.i)
                            * XorInt(WrapInt(3 * b2i(rx)), b2i(ry)))),
                  r[1], r[2], NoErr)

PeanoMapStep(N, w) ==
  IF ~(w.i < N) THEN Looped("done", w.i, w.t, w.x, w.y, NoErr)
  ELSE LET s   == GoMod(w.t, 9)
           rx  == GoDiv(s, 3)
           ry0 == GoMod(s, 3)
           ry  == IF rx = 1 THEN WrapInt(2 - ry0) ELSE ry0
           r   == IF w.i > 1 THEN PeanoRotate(w.i, w.x, w.y, s)
                  ELSE [x |-> w.x, y |-> w.y, panic |-> FALSE]
       IN  IF r.panic
           THEN Looped("done", w.i, w.t, w.x, w.y, PanicAssertion)
           ELSE Looped("loop", WrapInt(w.i * 3), GoDiv(w.t, 9),
                       WrapInt(r.x + WrapInt(rx * w.i)),
                       WrapInt(r.y + WrapInt(ry * w.i)), NoErr)

\* the working variables of another caller's call
WorkingShared(c) ==
  LET l == callers[CHOOSE d \in Callers : d /= c]
  IN  [i |-> l.i, t |-> l.t, x |-> l.x, y |-> l.y]

\* the working variables of the call the caller c is in
Working(c) ==
  [i |-> callers[c].i, t |-> callers[c].t,
   x |-> callers[c].x, y |-> callers[c].y]

\* the instances the callers may share, and the arguments they pass
ConcurrentCurves ==
  { [kind |-> "Space", N |-> New(n).N] :
      n \in {m \in 1 .. MaxConcurrentN : New(m).ok} }
  \cup { [kind |-> "Peano", N |-> NewPeano(n).N] :
           n \in {m \in 1 .. MaxConcurrentN : NewPeano(m).ok} }

ConcurrentT == -1 .. MaxConcurrentT

ConcurrentXY == -1 .. MaxConcurrentXY

InitConcurrent ==
  /\ curve \in ConcurrentCurves
  /\ pc = "idle"
  /\ call = NoCall
  /\ ret = NoRet
  /\ hist = [NoHist EXCEPT !.n = curve.N]
  /\ callers = [c \in Callers |-> IdleCaller]
  /\ test = NoTest

EnterMap(c) ==
  /\ callers[c].at = "idle"
  /\ \E t \in ConcurrentT :
       callers' = [callers EXCEPT ![c] =
                     IF curve.kind = "Space" THEN SpaceMapEnter(curve.N, t)
                     ELSE PeanoMapEnter(curve.N, t)]
  /\ UNCHANGED <<curve, pc, call, ret, hist, test>>

EnterMapInverse(c) ==
  /\ callers[c].at = "idle" /\ curve.kind = "Space"
  /\ \E x, y \in ConcurrentXY :
       callers' = [callers EXCEPT ![c] = SpaceMapInverseEnter(curve.N, x, y)]
  /\ UNCHANGED <<curve, pc, call, ret, hist, test>>

\* the caller c writes its local variables
Stepped(c, s) ==
  /\ callers' = [callers EXCEPT ![c] =
                   [@ EXCEPT !.at = s.at, !.i = s.i, !.t = s.t,
                             !.x = s.x, !.y = s.y, !.err = s.err]]
  /\ UNCHANGED <<curve, pc, call, ret, hist, test>>

StepMap(c) ==
  /\ callers[c].at = "loop" /\ callers[c].op = "Map"
  /\ Stepped(c, IF curve.kind = "Space"
                THEN SpaceMapStep(curve.N, Working(c))
                ELSE PeanoMapStep(curve.N, Working(c)))

StepMapInverse(c) ==
  /\ callers[c].at = "loop" /\ callers[c].op = "MapInverse"
  /\ Stepped(c, SpaceMapInverseStep(Working(c)))

\* the caller c has taken the result of its call
Finish(c) ==
  /\ callers[c].at = "done"
  /\ callers' = [callers EXCEPT ![c] = IdleCaller]
  /\ UNCHANGED <<curve, pc, call, ret, hist, test>>

NextConcurrent ==
  \E c \in Callers :
    \/ EnterMap(c)
    \/ EnterMapInverse(c)
    \/ StepMap(c)
    \/ StepMapInverse(c)
    \/ Finish(c)

SpecConcurrent == InitConcurrent /\ [][NextConcurrent]_vars

(***************************************************************************)
(* The table-driven test of isPow3: for each input, got := isPow3(tc.in).  *)
(***************************************************************************)
\* the float64 values given to isPow3: zero and every normal number with an
\* exponent of at most MaxFloatExp in absolute value, of either sign
FloatInputs ==
  { Float(neg, m, e) : neg \in BOOLEAN, m \in MantMin .. (MantLim - 1),
                       e \in (0 - MaxFloatExp) .. MaxFloatExp }
  \cup {Float(FALSE, 0, 0)}

InitIsPow3 ==
  /\ curve = NoCurve
  /\ pc = "idle"
  /\ call = NoCall
  /\ ret = NoRet
  /\ hist = NoHist
  /\ callers = [c \in Callers |-> IdleCaller]
  /\ test \in {[NoTest EXCEPT !.in = f, !.at = "ready"] : f \in FloatInputs}

TestIsPow3 ==
  /\ test.at = "ready"
  /\ test' = [test EXCEPT !.at = "done", !.got = isPow3(test.in)]
  /\ UNCHANGED <<curve, pc, call, ret, hist, callers>>

NextIsPow3 == TestIsPow3

SpecIsPow3 == InitIsPow3 /\ [][NextIsPow3]_vars

(***************************************************************************)
(* Vocabulary of the properties.                                           *)
(***************************************************************************)
HilbertKinds == {"Space", "Hilbert64"}

PeanoKinds == {"Peano", "Peano64"}

IntKinds == {"Space", "Peano"}

RECURSIVE Pow3(_)
Pow3(k) == IF k <= 0 THEN 1 ELSE 3 * Pow3(k - 1)

\* n is 2^k, resp. 3^k, for a natural number k
IsPowerOfTwo(n) == \E k \in 0 .. IntBits : n = Pow2(k)

IsPowerOfThree(n) == \E k \in 0 .. IntBits : n = Pow3(k)

\* the largest value of the index type of a curve of this kind
MaxIndex(kind) == IF kind \in IntKinds THEN MaxInt ELSE MaxUint64

\* the product N*N fits the index type of the curve
SquareFits(c) == c.N * c.N <= MaxIndex(c.kind)

\* t is an index of the curve, (x, y) a cell of its grid
InRange(c, t) == 0 <= t /\ t < c.N * c.N

InGrid(c, x, y) == 0 <= x /\ x < c.N /\ 0 <= y /\ y < c.N

\* Map and MapInverse of the curve c, whatever its kind
MapOf(c, t) ==
  CASE c.kind = "Space"     -> SpaceMap(c.N, t)
    [] c.kind = "Hilbert64" -> Hilbert64Map(c.N, t)
    [] c.kind = "Peano"     -> PeanoMap(c.N, t)
    [] c.kind = "Peano64"   -> Peano64Map(c.N, t)

MapInverseOf(c, x, y) ==
  CASE c.kind = "Space"     -> SpaceMapInverse(c.N, x, y)
    [] c.kind = "Hilbert64" -> Hilbert64MapInverse(c.N, x, y)
    [] c.kind = "Peano"     -> PeanoMapInverse(c.N, x, y)
    [] c.kind = "Peano64"   -> Peano64MapInverse(c.N, x, y)

\* the call that has just returned (or panicked)
DidMap == call.op = "Map"

DidMapInverse == call.op = "MapInverse"

DidConstruct(op) == call.op = op

(***************************************************************************)
(* C1.  Hilbert round trip on indices: on every Hilbert curve (Space or    *)
(* Hilbert64, N any power of two) and for every t in [0, N*N), Map(t)      *)
(* returns (x, y) without error and MapInverse(x, y) returns exactly t     *)
(* without error.                                                          *)
(***************************************************************************)
C1_RoundTripOnIndices ==
  (DidMap /\ curve.kind \in HilbertKinds /\ IsPowerOfTwo(curve.N)
     /\ InRange(curve, call.t))
  => /\ ret.err = NoErr
     /\ MapInverseOf(curve, ret.x, ret.y) = InvResult(call.t, NoErr)

(***************************************************************************)
(* C2.  Hilbert round trip on coordinates: on every Hilbert curve and for  *)
(* every cell (x, y) of its grid, MapInverse(x, y) returns some t without  *)
(* error and Map(t) returns exactly (x, y).                                *)
(***************************************************************************)
C2_RoundTripOnCoordinates ==
  (DidMapInverse /\ curve.kind \in HilbertKinds /\ IsPowerOfTwo(curve.N)
     /\ InGrid(curve, call.x, call.y))
  => /\ ret.err = NoErr
     /\ MapOf(curve, ret.t) = MapResult(call.x, call.y, NoErr)

(***************************************************************************)
(* C3.  Hilbert coverage: on every Hilbert curve and for every t in        *)
(* [0, N*N), Map(t) returns a cell of the grid and no other index maps to  *)
(* the same cell; and MapInverse of every cell is an index in [0, N*N).    *)
(* (The results are pairwise distinct when none equals the result of a     *)
(* smaller index.)                                                         *)
(***************************************************************************)
C3_HilbertCoverage ==
  /\ (DidMap /\ curve.kind \in HilbertKinds /\ InRange(curve, call.t))
     => /\ ret.err = NoErr
        /\ InGrid(curve, ret.x, ret.y)
        /\ \A u \in 0 .. (call.t - 1) :
             MapOf(curve, u) /= MapResult(ret.x, ret.y, NoErr)
  /\ (DidMapInverse /\ curve.kind \in HilbertKinds
        /\ InGrid(curve, call.x, call.y))
     => InRange(curve, ret.t)

(***************************************************************************)
(* C4.  Peano coverage: on the Peano curves of side 1, 3, 9 and 27 (Peano  *)
(* and Peano64) and for every t in [0, N*N), Map(t) returns a cell of the  *)
(* grid without error and no other index maps to the same cell (none of    *)
(* the smaller indices does, which makes the results pairwise distinct),   *)
(* so Map is a bijection from [0, N*N) onto the grid.                      *)
(***************************************************************************)
PeanoSides == {1, 3, 9, 27}

C4_PeanoCoverage ==
  (DidMap /\ curve.kind \in PeanoKinds /\ curve.N \in PeanoSides
     /\ InRange(curve, call.t))
  => /\ ret.err = NoErr
     /\ InGrid(curve, ret.x, ret.y)
     /\ \A u \in 0 .. (call.t - 1) :
          MapOf(curve, u) /= MapResult(ret.x, ret.y, NoErr)

\* Map(728) on the Peano64 curve of side 27 has returned the cell (26, 26)
C4_Witness ==
  /\ DidMap /\ curve = [kind |-> "Peano64", N |-> 27]
  /\ call.t = 728 /\ ret.x = 26 /\ ret.y = 26 /\ ret.err = NoErr

(***************************************************************************)
(* C5.  Hilbert construction: New(n) and NewHilbert64(n) return an         *)
(* instance with N = n and a nil error exactly when n is a positive power  *)
(* of two; for n <= 0 they return the not-positive error (ErrLessThanZero  *)
(* in hilbert.go, ErrNotPositive for Hilbert64), for every other n         *)
(* ErrNotPowerOfTwo, and in both failing cases no instance.                *)
(***************************************************************************)
C5_HilbertConstruction ==
  /\ DidConstruct("New") =>
       IF call.n <= 0 THEN curve = NoCurve /\ ret.err = ErrLessThanZero
       ELSE IF IsPowerOfTwo(call.n)
            THEN curve = [kind |-> "Space", N |-> call.n] /\ ret.err = NoErr
            ELSE curve = NoCurve /\ ret.err = ErrNotPowerOfTwo
  /\ DidConstruct("NewHilbert64") =>
       IF call.n <= 0 THEN curve = NoCurve /\ ret.err = ErrNotPositive
       ELSE IF IsPowerOfTwo(call.n)
            THEN curve = [kind |-> "Hilbert64", N |-> call.n]
                 /\ ret.err = NoErr
            ELSE curve = NoCurve /\ ret.err = ErrNotPowerOfTwo

\* New(6) has returned no instance and ErrNotPowerOfTwo
C5_Witness ==
  /\ DidConstruct("New") /\ call.n = 6
  /\ curve = NoCurve /\ ret.err = ErrNotPowerOfTwo

(***************************************************************************)
(* C6.  Peano construction: NewPeano(n) and NewPeano64(n) return an        *)
(* instance with N = n exactly when n is an exact power of three; for      *)
(* n <= 0 they return no instance and ErrNotPositive, for every other n    *)
(* no instance and ErrNotPowerOfThree.                                     *)
(***************************************************************************)
C6_PeanoConstruction ==
  \A op \in {"NewPeano", "NewPeano64"} :
    DidConstruct(op) =>
      IF call.n <= 0 THEN curve = NoCurve /\ ret.err = ErrNotPositive
      ELSE IF IsPowerOfThree(call.n)
           THEN /\ curve = [kind |-> IF op = "NewPeano" THEN "Peano"
                                     ELSE "Peano64",
                            N |-> call.n]
                /\ ret.err = NoErr
           ELSE curve = NoCurve /\ ret.err = ErrNotPowerOfThree

(***************************************************************************)
(* C7.  Map range validation: on every constructed curve of any of the     *)
(* four kinds whose N*N fits the index type, Map(t) returns ErrOutOfRange  *)
(* exactly when t < 0 or t >= N*N, and a nil error for every t in          *)
(* [0, N*N).                                                               *)
(***************************************************************************)
C7_MapRangeValidation ==
  (DidMap /\ SquareFits(curve))
  => IF InRange(curve, call.t) THEN ret.err = NoErr
     ELSE ret.err = ErrOutOfRange

\* Map(81) on the Peano curve of side 9 has returned ErrOutOfRange
C7_Witness ==
  /\ DidMap /\ curve = [kind |-> "Peano", N |-> 9]
  /\ call.t = 81 /\ ret.err = ErrOutOfRange

(***************************************************************************)
(* C8.  Hilbert MapInverse range validation: on every Hilbert curve,       *)
(* MapInverse(x, y) returns ErrOutOfRange exactly when x or y lies         *)
(* outside [0, N), and a nil error for every cell of the grid.             *)
(***************************************************************************)
C8_MapInverseRangeValidation ==
  (DidMapInverse /\ curve.kind \in HilbertKinds)
  => IF InGrid(curve, call.x, call.y) THEN ret.err = NoErr
     ELSE ret.err = ErrOutOfRange

\* MapInverse(16, 3) on the Space of side 16 has returned ErrOutOfRange
C8_Witness ==
  /\ DidMapInverse /\ curve = [kind |-> "Space", N |-> 16]
  /\ call.x = 16 /\ call.y = 3 /\ ret.err = ErrOutOfRange

(***************************************************************************)
(* C9.  Peano MapInverse is unavailable: on every Peano or Peano64 curve,  *)
(* MapInverse(x, y) with x or y outside [0, N) returns ErrOutOfRange and   *)
(* does not panic, and with (x, y) in the grid it returns nothing: it      *)
(* ends in the panic "Not finished".                                       *)
(***************************************************************************)
C9_PeanoMapInverseUnavailable ==
  (DidMapInverse /\ curve.kind \in PeanoKinds)
  => IF InGrid(curve, call.x, call.y)
     THEN pc = "panicked" /\ ret.err = PanicNotFinished
     ELSE pc = "returned" /\ ret.err = ErrOutOfRange

\* MapInverse(2, 1) on the Peano curve of side 3 has panicked
C9_Witness ==
  /\ DidMapInverse /\ curve = [kind |-> "Peano", N |-> 3]
  /\ call.x = 2 /\ call.y = 1 /\ pc = "panicked"

(***************************************************************************)
(* C10.  Hilbert reference values for N = 16: Map(t) is the tabulated      *)
(* cell and MapInverse of that cell is t, for the 18 rows of the tests'    *)
(* table, on Space and on Hilbert64.                                       *)
(***************************************************************************)
testCases ==
  { <<0, 0, 0>>, <<16, 4, 0>>, <<32, 4, 4>>, <<48, 3, 7>>, <<64, 0, 8>>,
    <<80, 0, 12>>, <<96, 4, 12>>, <<112, 7, 11>>, <<128, 8, 8>>,
    <<144, 8, 12>>, <<160, 12, 12>>, <<170, 15, 15>>, <<176, 15, 11>>,
    <<192, 15, 7>>, <<208, 11, 7>>, <<224, 11, 3>>, <<240, 12, 0>>,
    <<255, 15, 0>> }

C10_HilbertReferenceValues ==
  (curve.kind \in HilbertKinds /\ curve.N = 16)
  => \A row \in testCases :
       /\ (DidMap /\ call.t = row[1])
          => (ret.x = row[2] /\ ret.y = row[3] /\ ret.err = NoErr)
       /\ (DidMapInverse /\ call.x = row[2] /\ call.y = row[3])
          => (ret.t = row[1] /\ ret.err = NoErr)

\* MapInverse(4, 12) on the Hilbert64 curve of side 16 has returned 96
C10_Witness ==
  /\ DidMapInverse /\ curve = [kind |-> "Hilbert64", N |-> 16]
  /\ call.x = 4 /\ call.y = 12 /\ ret.t = 96 /\ ret.err = NoErr

(***************************************************************************)
(* C11.  Peano reference values: on the Peano and Peano64 curves of side   *)
(* 9, Map returns the ten tabulated cells; and on every Peano curve with   *)
(* N >= 3 the indices 0..8 trace the 3x3 snake x = t div 3, y = t mod 3,   *)
(* mirrored to 2 - t mod 3 when t div 3 = 1.                               *)
(***************************************************************************)
peanoTestCases ==
  { <<0, 0, 0>>, <<1, 0, 1>>, <<2, 0, 2>>, <<3, 1, 2>>, <<4, 1, 1>>,
    <<5, 1, 0>>, <<6, 2, 0>>, <<7, 2, 1>>, <<8, 2, 2>>, <<9, 2, 3>> }

C11_PeanoReferenceValues ==
  (DidMap /\ curve.kind \in PeanoKinds)
  => /\ curve.N = 9
        => \A row \in peanoTestCases :
             call.t = row[1]
             => (ret.x = row[2] /\ ret.y = row[3] /\ ret.err = NoErr)
     /\ (curve.N >= 3 /\ call.t \in 0 .. 8)
        => /\ ret.err = NoErr
           /\ ret.x = call.t \div 3
           /\ ret.y = IF call.t \div 3 = 1 THEN 2 - (call.t % 3)
                      ELSE call.t % 3

(***************************************************************************)
(* C12.  Degenerate grid N = 1: each of the four constructors returns an   *)
(* instance for n = 1; on it Map(0) returns (0, 0) and a nil error and     *)
(* every other index ErrOutOfRange; on the Hilbert curves MapInverse(0, 0) *)
(* returns 0 and a nil error; on all four every other cell makes           *)
(* MapInverse return ErrOutOfRange; and the level loops make no iteration. *)
(***************************************************************************)
\* the iterations of the level loops of Map and MapInverse on the curve c
MapLevelsOf(c) ==
  CASE c.kind = "Space"     -> SpaceMapLevels(c.N, 1)
    [] c.kind = "Hilbert64" -> Hilbert64MapLevels(c.N, 1)
    [] c.kind = "Peano"     -> PeanoMapLevels(c.N, 1)
    [] c.kind = "Peano64"   -> Peano64MapLevels(c.N, 1)

MapInverseLevelsOf(c) ==
  CASE c.kind = "Space"     -> SpaceMapInverseLevels(GoDiv(c.N, 2))
    [] c.kind = "Hilbert64" -> Hilbert64MapInverseLevels(c.N \div 2)

KindBuiltBy(op) ==
  CASE op = "New"          -> "Space"
    [] op = "NewHilbert64" -> "Hilbert64"
    [] op = "NewPeano"     -> "Peano"
    [] op = "NewPeano64"   -> "Peano64"

Constructors == {"New", "NewHilbert64", "NewPeano", "NewPeano64"}

C12_DegenerateGrid ==
  /\ (call.op \in Constructors /\ call.n = 1)
     => (curve = [kind |-> KindBuiltBy(call.op), N |-> 1] /\ ret.err = NoErr)
  /\ (DidMap /\ curve.N = 1)
     => /\ MapLevelsOf(curve) = 0
        /\ IF call.t = 0
           THEN ret.x = 0 /\ ret.y = 0 /\ ret.err = NoErr
           ELSE ret.err = ErrOutOfRange
  /\ (DidMapInverse /\ curve.N = 1)
     => /\ curve.kind \in HilbertKinds => MapInverseLevelsOf(curve) = 0
        /\ IF call.x = 0 /\ call.y = 0
           THEN curve.kind \in HilbertKinds
                => (ret.t = 0 /\ ret.err = NoErr)
           ELSE ret.err = ErrOutOfRange

\* MapInverse(0, 1) on the Space of side 1 has returned ErrOutOfRange
C12_Witness ==
  /\ DidMapInverse /\ curve = [kind |-> "Space", N |-> 1]
  /\ call.x = 0 /\ call.y = 1 /\ ret.err = ErrOutOfRange

(***************************************************************************)
(* C13.  GetDimensions on a constructed curve returns (N, N), N being the  *)
(* n given to the constructor, and does not fail; and a caller that reads  *)
(* (width, height) once and calls Map(t) for every t from 0 while          *)
(* t < width*height, as spaceFillingImage.Draw does, gets a nil error from *)
(* every one of these calls.                                               *)
(***************************************************************************)
GetDimensionsOf(c) ==
  CASE c.kind = "Space"     -> SpaceGetDimensions(c.N)
    [] c.kind = "Hilbert64" -> Hilbert64GetDimensions(c.N)
    [] c.kind = "Peano"     -> PeanoGetDimensions(c.N)
    [] c.kind = "Peano64"   -> Peano64GetDimensions(c.N)

\* width*height as Draw computes it, in the type GetDimensions returns
DrawCells(c) ==
  LET d == GetDimensionsOf(c)
  IN  IF c.kind \in IntKinds THEN WrapInt(d[1] * d[2])
      ELSE WrapUint64(d[1] * d[2])

DidGetDimensions == call.op = "GetDimensions"

C13_GetDimensions ==
  /\ DidGetDimensions
     => /\ pc = "returned" /\ ret.err = NoErr
        /\ ret.x = hist.n /\ ret.y = hist.n /\ curve.N = hist.n
  /\ (DidMap /\ 0 <= call.t /\ call.t < DrawCells(curve))
     => (pc = "returned" /\ ret.err = NoErr)

\* the last call of Draw's loop on the Space of side 32 has returned
C13_Witness ==
  /\ DidMap /\ curve = [kind |-> "Space", N |-> 32]
  /\ call.t = DrawCells(curve) - 1 /\ ret.err = NoErr

(***************************************************************************)
(* C14.  Overflow rejection at construction: a constructor returns no      *)
(* instance for an n whose square does not fit the index type (int for New *)
(* and NewPeano, uint64 for NewHilbert64 and NewPeano64), so that N*N fits *)
(* the index type on every instance there is.                              *)
(***************************************************************************)
C14_OverflowRejection ==
  /\ (call.op \in Constructors
      /\ call.n * call.n > MaxIndex(KindBuiltBy(call.op)))
     => (curve = NoCurve /\ ret.err /= NoErr)
  /\ curve /= NoCurve => SquareFits(curve)

(***************************************************************************)
(* C15.  Overflow guarding in the 64-bit mappers: on every Hilbert64 and   *)
(* Peano64 instance Map(t) returns a nil error for every t below the       *)
(* product N*N taken in the integers, and Hilbert64's MapInverse returns   *)
(* for a cell of the grid the index accumulated in the integers.           *)
(***************************************************************************)
\* the sum of MapInverse's terms i*i*(...) taken in the integers
RECURSIVE IndexInTheIntegers(_, _, _, _)
IndexInTheIntegers(i, x, y, t) ==
  IF ~(i > 0) THEN t
  ELSE LET rx == AndUint64(x, i) > 0
           ry == AndUint64(y, i) > 0
           a  == IF rx THEN 3 ELSE 0
           r  == Hilbert64Rotate(i, x, y, rx, ry)
       IN  IndexInTheIntegers(i \div 2, r[1], r[2],
                              t + i * i * XorUint64(a, b2i(ry)))

Kinds64 == {"Hilbert64", "Peano64"}

C15_OverflowGuarding ==
  /\ (DidMap /\ curve.kind \in Kinds64 /\ call.t < curve.N * curve.N)
     => ret.err = NoErr
  /\ (DidMapInverse /\ curve.kind = "Hilbert64"
      /\ InGrid(curve, call.x, call.y))
     => /\ ret.err = NoErr
        /\ ret.t = IndexInTheIntegers(curve.N \div 2, call.x, call.y, 0)

(***************************************************************************)
(* C16.  Concurrent use: when callers run Map and MapInverse on one        *)
(* instance with the steps of their loops interleaved in any order, every  *)
(* call ends with the result the same call gives when it runs alone, and   *)
(* the N of the instance stays what it was.                                *)
(***************************************************************************)
C16_ConcurrentUse ==
  /\ curve.N = hist.n
  /\ \A c \in Callers :
       LET l == callers[c]
       IN  /\ (l.at = "done" /\ l.op = "Map")
              => LET r == MapOf(curve, l.arg[1])
                 IN  l.x = r.x /\ l.y = r.y /\ l.err = r.err
           /\ (l.at = "done" /\ l.op = "MapInverse")
              => LET r == MapInverseOf(curve, l.arg[1], l.arg[2])
                 IN  l.t = r.t /\ l.err = r.err

\* on the Space of side 8 one caller has ended Map(37) while the other is
\* half way through the loop of MapInverse(5, 6)
C16_Witness ==
  /\ curve = [kind |-> "Space", N |-> 8]
  /\ callers["a"].at = "done" /\ callers["a"].op = "Map"
  /\ callers["a"].arg = <<37>> /\ callers["a"].err = NoErr
  /\ callers["b"].at = "loop" /\ callers["b"].op = "MapInverse"
  /\ callers["b"].arg = <<5, 6>> /\ callers["b"].i = 2

(***************************************************************************)
(* C17.  Failures leave the instance intact: after any sequence of Map and *)
(* MapInverse calls on an instance, calls that returned ErrOutOfRange      *)
(* among them, the N of the instance is the one it was constructed with    *)
(* and a call returns what the same call returns on an instance newly      *)
(* constructed with that N.                                                *)
(***************************************************************************)
\* the instance the constructor of this kind returns for n
FreshInstance(kind, n) ==
  LET r == CASE kind = "Space"     -> New(n)
             [] kind = "Hilbert64" -> NewHilbert64(n)
             [] kind = "Peano"     -> NewPeano(n)
             [] kind = "Peano64"   -> NewPeano64(n)
  IN  IF r.ok THEN [kind |-> kind, N |-> r.N] ELSE NoCurve

C17_FailuresLeaveInstanceIntact ==
  curve /= NoCurve
  => LET fresh == FreshInstance(curve.kind, hist.n)
     IN  /\ curve.N = hist.n
         /\ fresh /= NoCurve
         /\ DidMap
            => LET r == MapOf(fresh, call.t)
               IN  ret.x = r.x /\ ret.y = r.y /\ ret.err = r.err
         /\ DidMapInverse
            => LET r == MapInverseOf(fresh, call.x, call.y)
               IN  ret.t = r.t /\ ret.err = r.err

\* Map(5) has returned (0, 3) on a Space of side 4 on which an earlier call
\* returned ErrOutOfRange
C17_Witness ==
  /\ hist.failed /\ DidMap /\ curve = [kind |-> "Space", N |-> 4]
  /\ call.t = 5 /\ ret.err = NoErr /\ ret.x = 0 /\ ret.y = 3

(***************************************************************************)
(* C18.  Power-of-three classification by isPow3 on floating-point input:  *)
(* 1, 3, 9, 27 and the largest power of three the significand holds        *)
(* classify as true; -1, 0, 2, 4, 5 and the floats next to 3 and next to 9 *)
(* classify as false; and isPow3(n) is true exactly when n equals 3^k for  *)
(* an integer k >= 0.                                                      *)
(***************************************************************************)
\* the float f is the integer v
FloatIsInt(f, v) ==
  IF f.m = 0 THEN v = 0
  ELSE LET a == IF f.e >= FloatMantBits - 1
                THEN f.m * Pow2(f.e - FloatMantBits + 1) = v
                ELSE f.e >= 0 /\ f.m = v * Pow2(FloatMantBits - 1 - f.e)
       IN  a /\ ~f.neg

\* the floats next below and next above the float f >= 2
FloatBelow(f) ==
  IF f.m = MantMin THEN Float(f.neg, MantLim - 1, f.e - 1)
  ELSE Float(f.neg, f.m - 1, f.e)

FloatAbove(f) ==
  IF f.m = MantLim - 1 THEN Float(f.neg, MantMin, f.e + 1)
  ELSE Float(f.neg, f.m + 1, f.e)

\* the largest k with 3^k below 2^FloatMantBits
RECURSIVE MaxExactPow3(_)
MaxExactPow3(k) == IF Pow3(k + 1) >= MantLim THEN k ELSE MaxExactPow3(k + 1)

Pow3Accepted == {1, 3, 9, 27, Pow3(MaxExactPow3(0))}

Pow3Refused ==
  {Float64FromInt(n) : n \in {-1, 0, 2, 4, 5}}
  \cup {FloatAbove(Float64FromInt(3)), FloatBelow(Float64FromInt(9)),
        FloatAbove(Float64FromInt(9))}

C18_IsPow3Classification ==
  test.at = "done"
  => /\ (\E n \in Pow3Accepted : test.in = Float64FromInt(n)) => test.got
     /\ test.in \in Pow3Refused => ~test.got
     /\ test.got <=> \E k \in 0 .. MaxFloatExp :
                       FloatIsInt(test.in, Pow3(k))

(***************************************************************************)
(* C19.  Hilbert continuity: on every Hilbert curve whose N is a power of  *)
(* two and at least 2, for every t in [0, N*N - 1), Map(t) and Map(t + 1)  *)
(* return cells that share an edge: |x(t+1) - x(t)| + |y(t+1) - y(t)| = 1. *)
(***************************************************************************)
Abs(v) == IF v < 0 THEN 0 - v ELSE v

\* Map has returned for t a cell that shares an edge with the cell Map
\* returns for t + 1, both without an error
NextCellAdjacent ==
  LET n == MapOf(curve, call.t + 1)
  IN  /\ ret.err = NoErr /\ n.err = NoErr
      /\ Abs(n.x - ret.x) + Abs(n.y - ret.y) = 1

C19_HilbertContinuity ==
  (DidMap /\ curve.kind \in HilbertKinds
   /\ IsPowerOfTwo(curve.N) /\ curve.N >= 2
   /\ 0 <= call.t /\ call.t < curve.N * curve.N - 1)
  => NextCellAdjacent

(***************************************************************************)
(* C20.  Peano continuity: on the Peano curves with N = 3, 9 and 27, for   *)
(* every t in [0, N*N - 1), Map(t) and Map(t + 1) return cells that share  *)
(* an edge, also where t + 1 starts a new 3x3 or 9x9 block.                *)
(***************************************************************************)
C20_PeanoContinuity ==
  (DidMap /\ curve.kind \in PeanoKinds /\ curve.N \in {3, 9, 27}
   /\ 0 <= call.t /\ call.t < curve.N * curve.N - 1)
  => NextCellAdjacent

\* on the Peano curve of side 27 Map has returned the last cell of the
\* first 9x9 block, (8, 8); the next block starts at (8, 9)
C20_Witness ==
  /\ DidMap /\ curve = [kind |-> "Peano", N |-> 27]
  /\ call.t = 80 /\ ret.x = 8 /\ ret.y = 8 /\ ret.err = NoErr
  /\ PeanoMap(27, 81) = MapResult(8, 9, NoErr)

(***************************************************************************)
(* C21.  The two Hilbert implementations are equivalent: for every         *)
(* power-of-two N and all non-negative arguments both types take, Space    *)
(* and Hilbert64 agree on whether Map and MapInverse fail, and where they  *)
(* succeed on the cell Map returns and on the index MapInverse returns.    *)
(***************************************************************************)
\* the curve of the other Hilbert type with the side of the curve c
OtherHilbert(c) ==
  [kind |-> IF c.kind = "Space" THEN "Hilbert64" ELSE "Space", N |-> c.N]

C21_HilbertImplementationsEquivalent ==
  (curve.kind \in HilbertKinds /\ IsPowerOfTwo(curve.N)
   /\ curve.N <= MaxInt)
  => /\ (DidMap /\ 0 <= call.t /\ call.t <= MaxInt)
        => LET o == MapOf(OtherHilbert(curve), call.t)
           IN  /\ ret.err = o.err
               /\ ret.err = NoErr => (ret.x = o.x /\ ret.y = o.y)
     /\ (DidMapInverse /\ 0 <= call.x /\ call.x <= MaxInt
         /\ 0 <= call.y /\ call.y <= MaxInt)
        => LET o == MapInverseOf(OtherHilbert(curve), call.x, call.y)
           IN  /\ ret.err = o.err
               /\ ret.err = NoErr => ret.t = o.t

(***************************************************************************)
(* C22.  Hilbert endpoints: on every Hilbert curve whose N is a power of   *)
(* two and at least 2, Map(0) returns (0, 0) and Map(N*N - 1) returns      *)
(* (N - 1, 0); MapInverse(0, 0) returns 0 and MapInverse(N - 1, 0) returns *)
(* N*N - 1; all four without an error.                                     *)
(***************************************************************************)
C22_HilbertEndpoints ==
  (curve.kind \in HilbertKinds /\ IsPowerOfTwo(curve.N) /\ curve.N >= 2)
  => /\ (DidMap /\ call.t = 0)
        => (ret.x = 0 /\ ret.y = 0 /\ ret.err = NoErr)
     /\ (DidMap /\ call.t = curve.N * curve.N - 1)
        => (ret.x = curve.N - 1 /\ ret.y = 0 /\ ret.err = NoErr)
     /\ (DidMapInverse /\ call.x = 0 /\ call.y = 0)
        => (ret.t = 0 /\ ret.err = NoErr)
     /\ (DidMapInverse /\ call.x = curve.N - 1 /\ call.y = 0)
        => (ret.t = curve.N * curve.N - 1 /\ ret.err = NoErr)

(***************************************************************************)
(* C23.  Error precedence in New: for every n <= 0 of the int type New(n)  *)
(* returns no instance and the not-positive error ErrLessThanZero, never   *)
(* ErrNotPowerOfTwo; this includes 0 and the most negative int, the two    *)
(* n <= 0 for which n & (n - 1) is 0.                                      *)
(***************************************************************************)
C23_ErrorPrecedenceInNew ==
  /\ (DidConstruct("New") /\ call.n <= 0)
     => /\ curve = NoCurve
        /\ ret.err = ErrLessThanZero
        /\ ret.err /= ErrNotPowerOfTwo
  /\ \A n \in {0, MinInt} : AndInt(n, WrapInt(n - 1)) = 0
  /\ curve.kind = "Space" => curve.N > 0

\* New has returned ErrLessThanZero for the most negative int
C23_Witness ==
  /\ DidConstruct("New") /\ call.n = MinInt
  /\ AndInt(call.n, WrapInt(call.n - 1)) = 0
  /\ curve = NoCurve /\ ret.err = ErrLessThanZero

(***************************************************************************)
(* What the iterations of the Hilbert level loops see: for each iteration, *)
(* in order, the level i, the working x and y at its start, the quadrant   *)
(* flags, the x and y rotate returns (qx, qy) and the x and y at the end   *)
(* of the body (nx, ny).                                                   *)
(***************************************************************************)
Seen(i, x, y, rx, ry, q, nx, ny) ==
  [i |-> i, x |-> x, y |-> y, rx |-> rx, ry |-> ry,
   qx |-> q[1], qy |-> q[2], nx |-> nx, ny |-> ny]

RECURSIVE SpaceMapIterations(_, _, _, _, _)
SpaceMapIterations(N, i, t, x, y) ==
  IF ~(i < N) THEN <<>>
  ELSE LET rx == i2b(AndInt(1, GoDiv(t, 2)))
           ry == i2b(AndInt(1, XorInt(t, b2i(rx))))
           r  == rot(i, x, y, rx, ry)
           nx == WrapInt(r[1] + WrapInt(i * b2i(rx)))
           ny == WrapInt(r[2] + WrapInt(i * b2i(ry)))
       IN  <<Seen(i, x, y, rx, ry, r, nx, ny)>>
           \o SpaceMapIterations(N, WrapInt(i * 2), GoDiv(t, 4), nx, ny)

RECURSIVE Hilbert64MapIterations(_, _, _, _, _)
Hilbert64MapIterations(N, i, t, x, y) ==
  IF ~(i < N) THEN <<>>
  ELSE LET rx  == AndUint64(t, 2) = 2
           ry0 == AndUint64(t, 1) = 1
           ry  == IF rx THEN ~ry0 ELSE ry0
           r   == Hilbert64Rotate(i, x, y, rx, ry)
           nx  == IF rx THEN WrapUint64(r[1] + i) ELSE r[1]
           ny  == IF ry THEN WrapUint64(r[2] + i) ELSE r[2]
       IN  <<Seen(i, x, y, rx, ry, r, nx, ny)>>
           \o Hilbert64MapIterations(N, WrapUint64(i * 2), t \div 4, nx, ny)

RECURSIVE SpaceMapInverseIterations(_, _, _)
SpaceMapInverseIterations(i, x, y) ==
  IF ~(i > 0) THEN <<>>
  ELSE LET rx == AndInt(x, i) > 0
           ry == AndInt(y, i) > 0
           r  == rot(i, x, y, rx, ry)
       IN  <<Seen(i, x, y, rx, ry, r, r[1], r[2])>>
           \o SpaceMapInverseIterations(GoDiv(i, 2), r[1], r[2])

RECURSIVE Hilbert64MapInverseIterations(_, _, _)
Hilbert64MapInverseIterations(i, x, y) ==
  IF ~(i > 0) THEN <<>>
  ELSE LET rx == AndUint64(x, i) > 0
           ry == AndUint64(y, i) > 0
           r  == Hilbert64Rotate(i, x, y, rx, ry)
       IN  <<Seen(i, x, y, rx, ry, r, r[1], r[2])>>
           \o Hilbert64MapInverseIterations(i \div 2, r[1], r[2])

\* the iterations of Map(t) and of MapInverse(x, y) on the Hilbert curve c
\* once the range check has passed
HilbertMapIterationsOf(c, t) ==
  IF c.kind = "Space" THEN SpaceMapIterations(c.N, 1, t, 0, 0)
  ELSE Hilbert64MapIterations(c.N, 1, t, 0, 0)

HilbertMapInverseIterationsOf(c, x, y) ==
  IF c.kind = "Space" THEN SpaceMapInverseIterations(GoDiv(c.N, 2), x, y)
  ELSE Hilbert64MapInverseIterations(c.N \div 2, x, y)

(***************************************************************************)
(* C24.  Level invariant of Hilbert Map: in every iteration of the loop of *)
(* a Map call that passed the range check, the x and y at the start lie in *)
(* [0, i), the x and y rotate returns lie in [0, i), and the x and y after *)
(* the additions of i*rx and i*ry lie in [0, 2i).                          *)
(***************************************************************************)
Within(v, n) == 0 <= v /\ v < n

C24_HilbertMapLevelInvariant ==
  (DidMap /\ curve.kind \in HilbertKinds /\ ret.err = NoErr)
  => LET its == HilbertMapIterationsOf(curve, call.t)
     IN  /\ Len(its) = MapLevelsOf(curve)
         /\ \A k \in DOMAIN its :
              /\ Within(its[k].x, its[k].i) /\ Within(its[k].y, its[k].i)
              /\ Within(its[k].qx, its[k].i) /\ Within(its[k].qy, its[k].i)
              /\ Within(its[k].nx, 2 * its[k].i)
              /\ Within(its[k].ny, 2 * its[k].i)
         /\ its /= <<>>
            => (ret.x = its[Len(its)].nx /\ ret.y = its[Len(its)].ny)

\* Map(938) on the Hilbert64 curve of side 32 has returned; its last
\* iteration, at level 16, reflected (15, 15) to (0, 0)
C24_Witness ==
  /\ DidMap /\ curve = [kind |-> "Hilbert64", N |-> 32]
  /\ call.t = 938 /\ ret.err = NoErr
  /\ LET its == HilbertMapIterationsOf(curve, call.t)
     IN  /\ Len(its) = 5
         /\ its[5].i = 16 /\ its[5].rx /\ ~its[5].ry
         /\ its[5].x = 15 /\ its[5].y = 15
         /\ its[5].qx = 0 /\ its[5].qy = 0

(***************************************************************************)
(* C25.  No underflow in Hilbert MapInverse: in every iteration of the     *)
(* loop of a MapInverse call on a cell of the grid in which rotate takes   *)
(* the reflect branch (rx set, ry clear), the working x and y are at most  *)
(* i - 1, so that i-1-x and i-1-y are not negative; and the working x and  *)
(* y lie in [0, N) throughout the loop.                                    *)
(***************************************************************************)
Reflects(it) == it.rx /\ ~it.ry

C25_NoUnderflowInMapInverse ==
  (DidMapInverse /\ curve.kind \in HilbertKinds /\ ret.err = NoErr)
  => LET its == HilbertMapInverseIterationsOf(curve, call.x, call.y)
     IN  \A k \in DOMAIN its :
           /\ Reflects(its[k])
              => /\ its[k].x <= its[k].i - 1 /\ its[k].y <= its[k].i - 1
                 /\ its[k].i - 1 - its[k].x >= 0
                 /\ its[k].i - 1 - its[k].y >= 0
           /\ Within(its[k].x, curve.N) /\ Within(its[k].y, curve.N)
           /\ Within(its[k].qx, curve.N) /\ Within(its[k].qy, curve.N)

(***************************************************************************)
(* C25, as the code has it.  The claimed bound fails in exactly one place: *)
(* the first iteration of a MapInverse call in which rotate takes the      *)
(* reflect branch.  Up to and including that iteration the working x and y *)
(* at the start of the body lie in [0, N); there x has its bit i set, so   *)
(* x > i - 1 and i-1-x is below zero, and the y rotate returns is that     *)
(* negative number (int) or 2^w + i-1-x (uint64), outside [0, N).  The     *)
(* working values lie in [0, N) throughout the loop exactly when no        *)
(* iteration reflects.  After the first reflection the working values are  *)
(* no longer bounded by the level and a later reflection may compute a     *)
(* difference of either sign.  In every iteration, however, what rotate    *)
(* returns is, modulo i, the rotated cell of (x mod i, y mod i), and the   *)
(* index returned is, modulo 2^w, the sum of i*i*((3*rx) xor ry) over the  *)
(* iterations.                                                             *)
(***************************************************************************)
\* the cell rotate returns for (x mod i, y mod i), computed in the integers
RotatedInBlock(it) ==
  LET lx == it.x % it.i
      ly == it.y % it.i
  IN  IF it.ry THEN <<lx, ly>>
      ELSE IF it.rx THEN <<it.i - 1 - ly, it.i - 1 - lx>>
           ELSE <<ly, lx>>

\* no earlier iteration took the reflect branch
FirstReflection(its, k) == \A j \in 1 .. (k - 1) : ~Reflects(its[j])

\* the sum of i*i*((3*rx) xor ry) over the iterations, in the integers
RECURSIVE IndexOfIterations(_)
IndexOfIterations(its) ==
  IF its = <<>> THEN 0
  ELSE LET it == its[1]
           d  == IF it.rx THEN (IF it.ry THEN 2 ELSE 3)
                 ELSE (IF it.ry THEN 1 ELSE 0)
       IN  it.i * it.i * d + IndexOfIterations(Tail(its))

\* every working value of the iterations lies in [0, n)
StaysWithin(its, n) ==
  \A k \in DOMAIN its :
    /\ Within(its[k].x, n) /\ Within(its[k].y, n)
    /\ Within(its[k].qx, n) /\ Within(its[k].qy, n)

C25_MapInverseReflectsModuloLevel ==
  (DidMapInverse /\ curve.kind \in HilbertKinds /\ ret.err = NoErr)
  => LET its == HilbertMapInverseIterationsOf(curve, call.x, call.y)
     IN  /\ Len(its) = MapInverseLevelsOf(curve)
         /\ ret.t % Modulus = IndexOfIterations(its) % Modulus
         /\ StaysWithin(its, curve.N)
            <=> (\A k \in DOMAIN its : ~Reflects(its[k]))
         /\ \A k \in DOMAIN its :
              /\ its[k].qx % its[k].i = RotatedInBlock(its[k])[1]
              /\ its[k].qy % its[k].i = RotatedInBlock(its[k])[2]
              /\ FirstReflection(its, k)
                 => /\ Within(its[k].x, curve.N)
                    /\ Within(its[k].y, curve.N)
              /\ (Reflects(its[k]) /\ FirstReflection(its, k))
                 => /\ its[k].x > its[k].i - 1
                    /\ its[k].i - 1 - its[k].x < 0
                    /\ its[k].qy
                       = IF curve.kind = "Space"
                         THEN its[k].i - 1 - its[k].x
                         ELSE Modulus + its[k].i - 1 - its[k].x
                    /\ ~Within(its[k].qy, curve.N)

\* MapInverse(3, 4) on the Space of side 8 has returned 31; its second
\* iteration, at level 2, is the first to reflect and computed
\* 2-1-3 = -2 and 2-1-4 = -3; its third, at level 1, reflected x = -3 and
\* computed 1-1-(-3) = 3
C25_Witness ==
  /\ DidMapInverse /\ curve = [kind |-> "Space", N |-> 8]
  /\ call.x = 3 /\ call.y = 4 /\ ret.t = 31 /\ ret.err = NoErr
  /\ LET its == HilbertMapInverseIterationsOf(curve, call.x, call.y)
     IN  /\ Len(its) = 3
         /\ ~Reflects(its[1])
         /\ Reflects(its[2]) /\ its[2].i = 2
         /\ its[2].x = 3 /\ its[2].qy = -2 /\ its[2].qx = -3
         /\ Reflects(its[3]) /\ its[3].i = 1
         /\ its[3].x = -3 /\ its[3].qy = 3 /\ its[3].qx = 2

(***************************************************************************)
(* C26.  Hilbert quadrant locality: on every Hilbert curve whose N is a    *)
(* power of two and at least 2, for every t in [0, N*N) and with           *)
(* q = t div (N*N/4), Map(t) returns without an error a cell (x, y) with   *)
(* x >= N/2 exactly when q is 2 or 3 and y >= N/2 exactly when q is 1 or   *)
(* 2.                                                                      *)
(***************************************************************************)
C26_HilbertQuadrantLocality ==
  (DidMap /\ curve.kind \in HilbertKinds
   /\ IsPowerOfTwo(curve.N) /\ curve.N >= 2 /\ InRange(curve, call.t))
  => LET q == call.t \div ((curve.N * curve.N) \div 4)
     IN  /\ ret.err = NoErr
         /\ ret.x >= curve.N \div 2 <=> q \in {2, 3}
         /\ ret.y >= curve.N \div 2 <=> q \in {1, 2}

(***************************************************************************)
(* C27.  Hilbert curves of successive orders are transposes on their       *)
(* common prefix: for every power-of-two N and every t in [0, N*N), when   *)
(* Map(t) returns (x, y) on the curve of side N, it returns (y, x) on the  *)
(* curve of side 2N and (x, y) on the curve of side 4N, the sides 2N and   *)
(* 4N being values of the index type.                                      *)
(***************************************************************************)
\* Map(t) on the curve newly constructed with the side n returns (x, y)
MapsTo(kind, n, t, x, y) ==
  /\ FreshInstance(kind, n) /= NoCurve
  /\ MapOf(FreshInstance(kind, n), t) = MapResult(x, y, NoErr)

C27_HilbertOrdersTranspose ==
  (DidMap /\ curve.kind \in HilbertKinds
   /\ IsPowerOfTwo(curve.N) /\ InRange(curve, call.t))
  => /\ ret.err = NoErr
     /\ 2 * curve.N <= MaxIndex(curve.kind)
        => MapsTo(curve.kind, 2 * curve.N, call.t, ret.y, ret.x)
     /\ 4 * curve.N <= MaxIndex(curve.kind)
        => MapsTo(curve.kind, 4 * curve.N, call.t, ret.x, ret.y)

(***************************************************************************)
(* C28.  Peano curves of successive orders agree on their common prefix:   *)
(* for every power-of-three N and every t in [0, N*N), Map(t) returns on   *)
(* the curve of side 3N the cell it returns on the curve of side N, the    *)
(* side 3N being a value of the index type.                                *)
(***************************************************************************)
C28_PeanoOrdersAgree ==
  (DidMap /\ curve.kind \in PeanoKinds
   /\ IsPowerOfThree(curve.N) /\ InRange(curve, call.t))
  => /\ ret.err = NoErr
     /\ 3 * curve.N <= MaxIndex(curve.kind)
        => MapsTo(curve.kind, 3 * curve.N, call.t, ret.x, ret.y)

(***************************************************************************)
(* What the iterations of the Peano level loops see: for each iteration,   *)
(* in order, the level i, the working x and y at its start, the digit s,   *)
(* whether rotate was called, what it returned (qx, qy, or its panic) and  *)
(* the x and y at the end of the body (nx, ny).                            *)
(***************************************************************************)
SeenPeano(i, x, y, s, called, r, nx, ny) ==
  [i |-> i, x |-> x, y |-> y, s |-> s, called |-> called,
   qx |-> r.x, qy |-> r.y, panic |-> r.panic, nx |-> nx, ny |-> ny]

RECURSIVE PeanoMapIterations(_, _, _, _, _)
PeanoMapIterations(N, i, t, x, y) ==
  IF ~(i < N) THEN <<>>
  ELSE LET s   == GoMod(t, 9)
           rx  == GoDiv(s, 3)
           ry0 == GoMod(s, 3)
           ry  == IF rx = 1 THEN WrapInt(2 - ry0) ELSE ry0
           r   == IF i > 1 THEN PeanoRotate(i, x, y, s)
                  ELSE [x |-> x, y |-> y, panic |-> FALSE]
           nx  == WrapInt(r.x + WrapInt(rx * i))
           ny  == WrapInt(r.y + WrapInt(ry * i))
       IN  <<SeenPeano(i, x, y, s, i > 1, r, nx, ny)>>
           \o (IF r.panic THEN <<>>
               ELSE PeanoMapIterations(N, WrapInt(i * 3), GoDiv(t, 9),
                                       nx, ny))

RECURSIVE Peano64MapIterations(_, _, _, _, _)
Peano64MapIterations(N, i, t, x, y) ==
  IF ~(i < N) THEN <<>>
  ELSE LET s   == t % 9
           rx  == s \div 3
           ry0 == s % 3
           ry  == IF rx = 1 THEN WrapUint64(2 - ry0) ELSE ry0
           r   == IF i > 1 THEN Peano64Rotate(i, x, y, s)
                  ELSE [x |-> x, y |-> y, panic |-> FALSE]
           nx  == WrapUint64(r.x + WrapUint64(rx * i))
           ny  == WrapUint64(r.y + WrapUint64(ry * i))
       IN  <<SeenPeano(i, x, y, s, i > 1, r, nx, ny)>>
           \o (IF r.panic THEN <<>>
               ELSE Peano64MapIterations(N, WrapUint64(i * 3), t \div 9,
                                         nx, ny))

PeanoMapIterationsOf(c, t) ==
  IF c.kind = "Peano" THEN PeanoMapIterations(c.N, 1, t, 0, 0)
  ELSE Peano64MapIterations(c.N, 1, t, 0, 0)

(***************************************************************************)
(* C29.  Preconditions of the Peano rotation always hold: in every call of *)
(* rotate made by Map on a Peano curve for a t that passed the range       *)
(* check, n = i > 1, the digit s is in 0..8 and rotate does not panic, the *)
(* working x and y are at most i - 1 and the x and y rotate returns lie in *)
(* [0, i); rotate is not called at the level i = 1.                        *)
(***************************************************************************)
C29_PeanoRotatePreconditions ==
  (DidMap /\ curve.kind \in PeanoKinds /\ ret.err /= ErrOutOfRange)
  => LET its == PeanoMapIterationsOf(curve, call.t)
     IN  /\ pc = "returned" /\ ret.err = NoErr
         /\ Len(its) = MapLevelsOf(curve)
         /\ \A k \in DOMAIN its :
              /\ its[k].called <=> its[k].i > 1
              /\ its[k].called
                 => /\ its[k].s \in 0 .. 8 /\ ~its[k].panic
                    /\ its[k].x <= its[k].i - 1 /\ its[k].y <= its[k].i - 1
                    /\ Within(its[k].qx, its[k].i)
                    /\ Within(its[k].qy, its[k].i)
         /\ its /= <<>>
            => (ret.x = its[Len(its)].nx /\ ret.y = its[Len(its)].ny)

\* Map(40) on the Peano64 curve of side 9 has returned (4, 4); at level 3
\* rotate was called with s = 4 and flipped (1, 1) to (1, 1)
C29_Witness ==
  /\ DidMap /\ curve = [kind |-> "Peano64", N |-> 9]
  /\ call.t = 40 /\ ret.x = 4 /\ ret.y = 4 /\ ret.err = NoErr
  /\ LET its == PeanoMapIterationsOf(curve, call.t)
     IN  /\ Len(its) = 2 /\ its[2].called /\ its[2].i = 3 /\ its[2].s = 4
         /\ its[2].x = 1 /\ its[2].y = 1 /\ its[2].qx = 1 /\ its[2].qy = 1

(***************************************************************************)
(* C30.  Termination: on every instance and for every argument that       *)
(* passes the range check, the level loop of Map makes exactly log2(N)     *)
(* iterations on a Hilbert curve and log3(N) on a Peano curve, the loop of *)
(* Hilbert MapInverse makes exactly log2(N) iterations, and the value      *)
(* i*2, resp. i*3, computed at the end of an iteration of Map fits the     *)
(* index type.                                                             *)
(***************************************************************************)
\* N = b^k with b the base of the curve, 2 for Hilbert and 3 for Peano
IsPowerOfBase(c, k) ==
  IF c.kind \in HilbertKinds THEN c.N = Pow2(k) ELSE c.N = Pow3(k)

BaseOf(c) == IF c.kind \in HilbertKinds THEN 2 ELSE 3

MapIterationsOf(c, t) ==
  IF c.kind \in HilbertKinds THEN HilbertMapIterationsOf(c, t)
  ELSE PeanoMapIterationsOf(c, t)

C30_Termination ==
  /\ (DidMap /\ curve /= NoCurve /\ ret.err /= ErrOutOfRange)
     => LET its == MapIterationsOf(curve, call.t)
        IN  /\ \E k \in 0 .. IntBits :
                 IsPowerOfBase(curve, k) /\ Len(its) = k
                 /\ MapLevelsOf(curve) = k
            /\ \A j \in DOMAIN its :
                 its[j].i * BaseOf(curve) <= MaxIndex(curve.kind)
  /\ (DidMapInverse /\ curve.kind \in HilbertKinds /\ ret.err = NoErr)
     => \E k \in 0 .. IntBits :
          /\ IsPowerOfBase(curve, k)
          /\ MapInverseLevelsOf(curve) = k
          /\ Len(HilbertMapInverseIterationsOf(curve, call.x, call.y)) = k

====
